---------------------------- MODULE Spec2Model ----------------------------
(***************************************************************************)
(* Product identity-resolution pipeline of emissornfe (src/db.py) and its  *)
(* caller importar_xml_document (src/nfe_business.py, src/app.py).         *)
(*                                                                         *)
(* Text is a sequence of one-character strings.  An optional value is      *)
(* None (<<>>) or Some(v) (<<v>>).                                         *)
(***************************************************************************)
EXTENDS Integers, Sequences, FiniteSets, TLC

None == <<>>
Some(v) == <<v>>

(***************************************************************************)
(* Characters                                                              *)
(***************************************************************************)
UpperChars == <<"A","B","C","D","E","F","G","H","I","J","K","L","M",
                "N","O","P","Q","R","S","T","U","V","W","X","Y","Z">>
LowerChars == <<"a","b","c","d","e","f","g","h","i","j","k","l","m",
                "n","o","p","q","r","s","t","u","v","w","x","y","z">>
DigitChars == <<"0","1","2","3","4","5","6","7","8","9">>

Range(f) == {f[i] : i \in DOMAIN f}
IndexOf(seq, c) == CHOOSE i \in DOMAIN seq : seq[i] = c

IsUpper(c) == c \in Range(UpperChars)
IsLower(c) == c \in Range(LowerChars)
IsDigit(c) == c \in Range(DigitChars)
\* \s of the re module, on the ASCII text left after the encode step
IsSpace(c) == c \in {" ", "\t", "\n"}
\* \w of the re module on ASCII text: letters, digits and the underscore
IsWordChar(c) == IsUpper(c) \/ IsLower(c) \/ IsDigit(c) \/ c = "_"

\* code point of an ASCII character, as sorted() compares tokens
Ord(c) ==
    IF IsUpper(c) THEN 64 + IndexOf(UpperChars, c)
    ELSE IF IsLower(c) THEN 96 + IndexOf(LowerChars, c)
    ELSE IF IsDigit(c) THEN 47 + IndexOf(DigitChars, c)
    ELSE IF c = "\t" THEN 9
    ELSE IF c = "\n" THEN 10
    ELSE IF c = " " THEN 32
    ELSE IF c = "." THEN 46
    ELSE IF c = "-" THEN 45
    ELSE IF c = "_" THEN 95
    ELSE 63

\* unicodedata.normalize("NFKD", c).encode("ascii", "ignore"): an accented
\* letter keeps its base letter, any other non-ASCII character is dropped
AsciiFold(c) ==
    IF c \in {"ã", "á", "â", "à"} THEN <<"a">>
    ELSE IF c \in {"Ã", "Á", "Â", "À"} THEN <<"A">>
    ELSE IF c = "ç" THEN <<"c">>
    ELSE IF c = "Ç" THEN <<"C">>
    ELSE IF c \in {"é", "ê"} THEN <<"e">>
    ELSE IF c \in {"É", "Ê"} THEN <<"E">>
    ELSE IF c \in {"õ", "ó", "ô"} THEN <<"o">>
    ELSE IF c \in {"Õ", "Ó", "Ô"} THEN <<"O">>
    ELSE IF c = "º" THEN <<"o">>
    ELSE IF c \in {"ß", "€"} THEN <<>>
    ELSE <<c>>

\* str.upper() on an ASCII character
ToUpper(c) == IF IsLower(c) THEN UpperChars[IndexOf(LowerChars, c)] ELSE c

RECURSIVE FoldAll(_)
FoldAll(s) == IF s = <<>> THEN <<>> ELSE AsciiFold(Head(s)) \o FoldAll(Tail(s))

UpperAll(s) == [i \in DOMAIN s |-> ToUpper(s[i])]

(***************************************************************************)
(* re.sub for the ABBREV patterns \bWORD\b and \bWORD\.?\b                 *)
(***************************************************************************)
\* \b at the gap before position i of s (1 <= i <= Len(s) + 1)
WordBoundary(s, i) ==
    LET before == i > 1 /\ IsWordChar(s[i - 1])
        after  == i <= Len(s) /\ IsWordChar(s[i])
    IN  before # after

\* length of the match of \bword(\.?)\b starting at position i, 0 when none;
\* the optional dot is greedy and is given up when no \b follows it
MatchLen(s, i, word, optDot) ==
    LET k == Len(word)
    IN  IF i + k - 1 > Len(s) THEN 0
        ELSE IF SubSeq(s, i, i + k - 1) # word THEN 0
        ELSE IF ~WordBoundary(s, i) THEN 0
        ELSE IF optDot /\ i + k <= Len(s) /\ s[i + k] = "."
                /\ WordBoundary(s, i + k + 1) THEN k + 1
        ELSE IF WordBoundary(s, i + k) THEN k
        ELSE 0

RECURSIVE ReSubFrom(_, _, _, _, _)
ReSubFrom(s, i, word, optDot, repl) ==
    IF i > Len(s) THEN <<>>
    ELSE LET n == MatchLen(s, i, word, optDot)
         IN  IF n > 0 THEN repl \o ReSubFrom(s, i + n, word, optDot, repl)
             ELSE <<s[i]>> \o ReSubFrom(s, i + 1, word, optDot, repl)

ReSub(s, word, optDot, repl) == ReSubFrom(s, 1, word, optDot, repl)

PACOTE   == <<"P","A","C","O","T","E">>
PAULISTA == <<"P","A","U","L","I","S","T","A">>
EMBALADA == <<"E","M","B","A","L","A","D","A">>

\* the ABBREV table, in dict order: <<word, optional dot, replacement>>
ABBREV == <<
    << <<"P","C","T">>,     FALSE, PACOTE >>,
    << <<"P","C","T","E">>, FALSE, PACOTE >>,
    << <<"P","C","T">>,     TRUE,  PACOTE >>,
    << <<"P","T","A">>,     FALSE, PAULISTA >>,
    << <<"E","M","B">>,     TRUE,  EMBALADA >> >>

RECURSIVE ApplyAbbrev(_, _)
ApplyAbbrev(s, k) ==
    IF k > Len(ABBREV) THEN s
    ELSE ApplyAbbrev(ReSub(s, ABBREV[k][1], ABBREV[k][2], ABBREV[k][3]), k + 1)

\* re.sub(r"[^A-Z0-9\s]", " ", s)
PunctToSpace(c) == IF IsUpper(c) \/ IsDigit(c) \/ IsSpace(c) THEN c ELSE " "

\* re.sub(r"\s+", " ", s).strip()
RECURSIVE CollapseFrom(_, _, _)
CollapseFrom(s, i, pendingSpace) ==
    IF i > Len(s) THEN <<>>
    ELSE IF IsSpace(s[i]) THEN CollapseFrom(s, i + 1, TRUE)
    ELSE (IF pendingSpace THEN <<" ">> ELSE <<>>) \o <<s[i]>>
         \o CollapseFrom(s, i + 1, FALSE)

RECURSIVE SkipSpaces(_, _)
SkipSpaces(s, i) ==
    IF i <= Len(s) /\ IsSpace(s[i]) THEN SkipSpaces(s, i + 1) ELSE i

CollapseStrip(s) == CollapseFrom(s, SkipSpaces(s, 1), FALSE)

normalize_name(name) ==
    LET s1 == FoldAll(name)
        s2 == UpperAll(s1)
        s3 == ApplyAbbrev(s2, 1)
        s4 == [i \in DOMAIN s3 |-> PunctToSpace(s3[i])]
    IN  CollapseStrip(s4)

(***************************************************************************)
(* rapidfuzz: fuzz.token_sort_ratio and process.extractOne                 *)
(***************************************************************************)
\* str.split(): the whitespace-separated tokens of s
RECURSIVE SplitFrom(_, _, _)
SplitFrom(s, i, cur) ==
    IF i > Len(s) THEN (IF cur = <<>> THEN <<>> ELSE <<cur>>)
    ELSE IF IsSpace(s[i])
         THEN (IF cur = <<>> THEN <<>> ELSE <<cur>>) \o SplitFrom(s, i + 1, <<>>)
         ELSE SplitFrom(s, i + 1, Append(cur, s[i]))

Split(s) == SplitFrom(s, 1, <<>>)

\* a < b in the lexicographic order of code points
RECURSIVE TokenLess(_, _)
TokenLess(a, b) ==
    IF b = <<>> THEN FALSE
    ELSE IF a = <<>> THEN TRUE
    ELSE IF Ord(Head(a)) # Ord(Head(b)) THEN Ord(Head(a)) < Ord(Head(b))
    ELSE TokenLess(Tail(a), Tail(b))

RECURSIVE InsertSorted(_, _)
InsertSorted(tok, sorted) ==
    IF sorted = <<>> THEN <<tok>>
    ELSE IF TokenLess(Head(sorted), tok) \/ Head(sorted) = tok
         THEN <<Head(sorted)>> \o InsertSorted(tok, Tail(sorted))
         ELSE <<tok>> \o sorted

RECURSIVE SortTokens(_)
SortTokens(toks) ==
    IF toks = <<>> THEN <<>> ELSE InsertSorted(Head(toks), SortTokens(Tail(toks)))

RECURSIVE JoinTokens(_)
JoinTokens(toks) ==
    IF toks = <<>> THEN <<>>
    ELSE IF Len(toks) = 1 THEN Head(toks)
    ELSE Head(toks) \o <<" ">> \o JoinTokens(Tail(toks))

\* " ".join(sorted(s.split()))
TokenSort(s) == JoinTokens(SortTokens(Split(s)))

\* length of the longest common subsequence, one row of the table at a time:
\* acc holds the entries 1..j-1 of the row of character ch, prev the row above
RECURSIVE LcsRow(_, _, _, _, _)
LcsRow(ch, b, prev, j, acc) ==
    IF j > Len(b) THEN acc
    ELSE LET diag == IF j = 1 THEN 0 ELSE prev[j - 1]
             left == IF j = 1 THEN 0 ELSE acc[j - 1]
             up   == prev[j]
             v    == IF ch = b[j] THEN diag + 1
                     ELSE IF up >= left THEN up ELSE left
         IN  LcsRow(ch, b, prev, j + 1, Append(acc, v))

RECURSIVE LcsRows(_, _, _, _)
LcsRows(a, i, b, prev) ==
    IF i > Len(a) THEN prev
    ELSE LcsRows(a, i + 1, b, LcsRow(a[i], b, prev, 1, <<>>))

LcsLen(a, b) ==
    IF a = <<>> \/ b = <<>> THEN 0
    ELSE LcsRows(a, 1, b, [j \in 1..Len(b) |-> 0])[Len(b)]

\* fuzz.ratio: 100 * (1 - indel_distance / (len1 + len2)), as the exact
\* fraction <<numerator, denominator>>; two empty strings score 100
Ratio(a, b) ==
    IF Len(a) + Len(b) = 0 THEN <<100, 1>>
    ELSE <<200 * LcsLen(a, b), Len(a) + Len(b)>>

token_sort_ratio(a, b) == Ratio(TokenSort(a), TokenSort(b))

\* score >= min_score on the exact fraction
ScoreAtLeast(score, min) == score[1] >= min * score[2]
ScoreGreater(s1, s2) == s1[1] * s2[2] > s2[1] * s1[2]
ScoreIsZero(score) == score[1] = 0

\* process.extractOne(query, names, scorer=token_sort_ratio): the indexes of
\* the candidates that attain the highest score (the first one scanned wins,
\* and the scan order of an unordered SELECT is the storage's)
BestScore(query, rows) ==
    LET sc(p) == token_sort_ratio(query, p.name_norm)
        best  == CHOOSE p \in rows : \A q \in rows : ~ScoreGreater(sc(q), sc(p))
    IN  sc(best)

(***************************************************************************)
(* Input universe                                                          *)
(***************************************************************************)
Slots  == {"T1", "T2"}
Stores == {"A", "B"}
Codes  == {"c1", "c2"}
\* the optional code argument: None, the empty string, or a business code
CodeArgs == {None, Some("")} \cup {Some(c) : c \in Codes}

\* raw names: two spellings of one normalized name, and a near neighbour
NamePct     == <<"P","c","t">>
NamePacote  == PACOTE
NamePacotes == <<"P","A","C","O","T","E","S">>
Names == {NamePct, NamePacote, NamePacotes}

NoTax  == [ncm |-> None, unit |-> None, cst_icms |-> None]
SomeTax == [ncm |-> Some("07096000"), unit |-> Some("KG"), cst_icms |-> Some("40")]
TaxInputs == {NoTax, SomeTax}

\* import_row's default threshold, and the one importar_xml_document passes
DefaultMinScore == 90
MinScores == {DefaultMinScore, 100}

\* ids a caller passes to ensure_alias and approve_*
PidArgs == {1, 2}
InboxIdArgs == {1, 2}

\* number of calls in a run
MaxCalls == 2
MaxItems == 2

\* the texts normalize_name is tried on: the letters of the abbreviations, an
\* accented letter, a digit, the underscore, the dot and the space
NormChars == {"P", "C", "T", "E", "A", "M", "B", "é", "1", "_", ".", " "}
MaxLen == 4
Texts == UNION {[1..n -> NormChars] : n \in 0..MaxLen}

(***************************************************************************)
(* State                                                                   *)
(***************************************************************************)
VARIABLES
    products,    \* committed rows of table products
    aliases,     \* committed rows of table product_aliases
    inbox,       \* committed rows of table product_inbox
    clients,     \* committed rows of table clients, by their documento
    next_pid,    \* sequence of products.id
    next_iid,    \* sequence of product_inbox.id
    ncalls,      \* number of calls made so far
    slots,       \* the sessions that issue transactions
    tx,          \* per session: the open transaction and the running call
    nfe_xmls,    \* committed rows of table nfe_xmls
    approved,    \* history: the inbox rows approved as products, with the product
    imported,    \* history: the hashes of the documents whose import ran to its end
    norm         \* a text and the results of normalize_name applied to it in turn

vars == <<products, aliases, inbox, clients, next_pid, next_iid,
          ncalls, slots, tx, nfe_xmls, approved, imported, norm>>

Ids(rows) == {r.id : r \in rows}

\* the session of a slot with no open transaction
Idle == [pc |-> "idle", op |-> "none",
         store |-> "", name |-> <<>>, code |-> None, tax |-> NoTax, min |-> 0,
         inbox_id |-> 0, apid |-> 0,
         prod_id |-> None, spid |-> None, score |-> <<0, 1>>,
         branch |-> "none", result |-> None, err |-> None,
         fuzz |-> TRUE, batch |-> FALSE, items |-> <<>>, xml |-> None,
         plock |-> {}, kshare |-> {}, clock |-> {},
         pins |-> {}, pupd |-> {}, ains |-> {}, iins |-> {}, idel |-> {}, cins |-> {}]

(***************************************************************************)
(* What a statement of session t sees under READ COMMITTED: the committed  *)
(* rows overlaid with the transaction's own writes                         *)
(***************************************************************************)
VisProducts(t) ==
    {p \in products : p.id \notin Ids(tx[t].pupd)} \cup tx[t].pupd \cup tx[t].pins
\* variant: a read that misses the rows the transaction has not committed
VisAliases_CommittedOnly(t) == aliases

VisAliases(t) ==
    {a \in aliases : a.id \notin Ids(tx[t].ains)} \cup tx[t].ains
VisInbox(t) == {i \in inbox \cup tx[t].iins : i.id \notin tx[t].idel}

(***************************************************************************)
(* Rows                                                                    *)
(***************************************************************************)
\* SELECT * FROM products WHERE code=:code (a NULL code matches no row)
ProductsByCode(rows, code) ==
    IF code = None THEN {} ELSE {p \in rows : p.code = code[1]}

\* variant: the INSERT that stores the name as name_norm
NewProduct_RawNorm(id, code, name, tax) ==
    [id |-> id, code |-> code[1], name |-> name,
     name_norm |-> name,
     ncm |-> tax.ncm, unit |-> tax.unit, cst_icms |-> tax.cst_icms,
     active |-> TRUE]

\* INSERT INTO products (...) VALUES (..., TRUE)
NewProduct(id, code, name, tax) ==
    [id |-> id, code |-> code[1], name |-> name,
     name_norm |-> normalize_name(name),
     ncm |-> tax.ncm, unit |-> tax.unit, cst_icms |-> tax.cst_icms,
     active |-> TRUE]

\* variant: the UPDATE that leaves name_norm as it was
UpdatedProduct_KeepNorm(p, name, tax) ==
    [p EXCEPT !.name = name,
              !.ncm = tax.ncm, !.unit = tax.unit, !.cst_icms = tax.cst_icms]

\* variant: the UPDATE that also sets active
UpdatedProduct_Reactivates(p, name, tax) ==
    [p EXCEPT !.name = name, !.name_norm = normalize_name(name),
              !.ncm = tax.ncm, !.unit = tax.unit, !.cst_icms = tax.cst_icms,
              !.active = TRUE]

\* UPDATE products SET name, name_norm, ncm, unit, cst_icms WHERE code=:code
UpdatedProduct(p, name, tax) ==
    [p EXCEPT !.name = name, !.name_norm = normalize_name(name),
              !.ncm = tax.ncm, !.unit = tax.unit, !.cst_icms = tax.cst_icms]

\* the rows of product_aliases with the key (store_id, alias_norm)
AliasesOfPair(rows, store, alias_norm) ==
    {a \in rows : a.store_id = store /\ a.alias_norm = alias_norm}

NewAlias(id, product_id, store, alias) ==
    [id |-> id, product_id |-> product_id, store_id |-> store,
     alias |-> alias, alias_norm |-> normalize_name(alias)]

\* SELECT p.id FROM product_aliases a JOIN products p ON p.id = a.product_id
\*  WHERE a.store_id=:store AND a.alias_norm=:an
AliasLookupIds(arows, prows, store, alias_norm) ==
    {a.product_id : a \in AliasesOfPair(arows, store, alias_norm)} \cap Ids(prows)

\* Numeric(5, 2): the score rounded to hundredths, in hundredths
Numeric52(score) == (200 * score[1] + score[2]) \div (2 * score[2])

NewInboxRow(id, store, raw_name, raw_code, raw_ncm, raw_unit, reason, spid, score) ==
    [id |-> id, store_id |-> store, raw_name |-> raw_name, raw_code |-> raw_code,
     raw_ncm |-> raw_ncm, raw_unit |-> raw_unit, reason |-> reason,
     suggested_product_id |-> spid,
     score |-> IF score = None THEN None ELSE Some(Numeric52(score[1]))]

\* variant: best_suggestion over every product, retired ones too
best_suggestion_AllRows(prows, name, min_score, importable) ==
    LET name_norm == normalize_name(name)
        rows == prows
    IN  IF ~importable \/ rows = {} THEN {[spid |-> None, score |-> <<0, 1>>]}
        ELSE LET best == BestScore(name_norm, rows)
                 tops == {p \in rows :
                            ~ScoreGreater(best, token_sort_ratio(name_norm, p.name_norm))}
             IN  IF ScoreAtLeast(best, min_score)
                 THEN {[spid |-> Some(p.id), score |-> best] : p \in tops}
                 ELSE {[spid |-> None, score |-> best]}

\* variant: best_suggestion that asks for a score above the threshold
best_suggestion_StrictThreshold(prows, name, min_score, importable) ==
    LET name_norm == normalize_name(name)
        rows == {p \in prows : p.active}
    IN  IF ~importable \/ rows = {} THEN {[spid |-> None, score |-> <<0, 1>>]}
        ELSE LET best == BestScore(name_norm, rows)
                 tops == {p \in rows :
                            ~ScoreGreater(best, token_sort_ratio(name_norm, p.name_norm))}
             IN  IF ScoreGreater(best, <<min_score, 1>>)
                 THEN {[spid |-> Some(p.id), score |-> best] : p \in tops}
                 ELSE {[spid |-> None, score |-> best]}

\* best_suggestion: the possible (product_id, score) results
best_suggestion(prows, name, min_score, importable) ==
    LET name_norm == normalize_name(name)
        rows == {p \in prows : p.active}
    IN  IF ~importable \/ rows = {} THEN {[spid |-> None, score |-> <<0, 1>>]}
        ELSE LET best == BestScore(name_norm, rows)
                 tops == {p \in rows :
                            ~ScoreGreater(best, token_sort_ratio(name_norm, p.name_norm))}
             IN  IF ScoreAtLeast(best, min_score)
                 THEN {[spid |-> Some(p.id), score |-> best] : p \in tops}
                 ELSE {[spid |-> None, score |-> best]}

(***************************************************************************)
(* Calls: a session with no open transaction opens one and enters a call   *)
(***************************************************************************)
Truthy(code) == code # None /\ code # Some("")

Set(t, r) == tx' = [tx EXCEPT ![t] = r]

\* variant: import_row that tries the alias before the code
BeginImportRow_LookupFirst(t, store, name, code, tax, min) ==
    /\ t \in slots /\ tx[t].pc = "idle"
    /\ Set(t, [Idle EXCEPT !.op = "import_row", !.pc = "alias_lookup",
                           !.store = store, !.name = name, !.code = code,
                           !.tax = tax, !.min = min])
    /\ ncalls < MaxCalls /\ ncalls' = ncalls + 1
    /\ UNCHANGED <<products, aliases, inbox, clients, next_pid, next_iid, slots, nfe_xmls, approved, imported, norm>>

\* db.import_row(s, store_id, name, code, ncm, unit, cst_icms, min_fuzzy_score)
BeginImportRow(t, store, name, code, tax, min) ==
    /\ t \in slots /\ tx[t].pc = "idle"
    /\ Set(t, [Idle EXCEPT !.op = "import_row",
                           !.pc = IF Truthy(code) THEN "upsert_select" ELSE "alias_lookup",
                           !.store = store, !.name = name, !.code = code,
                           !.tax = tax, !.min = min])
    /\ ncalls < MaxCalls /\ ncalls' = ncalls + 1
    /\ UNCHANGED <<products, aliases, inbox, clients, next_pid, next_iid, slots, nfe_xmls, approved, imported, norm>>

\* db.upsert_product_by_code(s, code, name, ncm, unit, cst_icms)
BeginUpsert(t, code, name, tax) ==
    /\ t \in slots /\ tx[t].pc = "idle"
    /\ Set(t, [Idle EXCEPT !.op = "upsert_product_by_code", !.pc = "upsert_select",
                           !.name = name, !.code = code, !.tax = tax])
    /\ ncalls < MaxCalls /\ ncalls' = ncalls + 1
    /\ UNCHANGED <<products, aliases, inbox, clients, next_pid, next_iid, slots, nfe_xmls, approved, imported, norm>>

\* db.ensure_alias(s, product_id, store_id, alias)
BeginEnsureAlias(t, pid, store, alias) ==
    /\ t \in slots /\ tx[t].pc = "idle"
    /\ Set(t, [Idle EXCEPT !.op = "ensure_alias", !.pc = "alias_insert",
                           !.apid = pid, !.store = store, !.name = alias])
    /\ ncalls < MaxCalls /\ ncalls' = ncalls + 1
    /\ UNCHANGED <<products, aliases, inbox, clients, next_pid, next_iid, slots, nfe_xmls, approved, imported, norm>>

\* db.approve_inbox_link_alias(s, inbox_id, product_id, store_id, alias)
BeginApproveLinkAlias(t, inbox_id, pid, store, alias) ==
    /\ t \in slots /\ tx[t].pc = "idle"
    /\ Set(t, [Idle EXCEPT !.op = "approve_inbox_link_alias", !.pc = "alias_insert",
                           !.inbox_id = inbox_id, !.apid = pid,
                           !.store = store, !.name = alias])
    /\ ncalls < MaxCalls /\ ncalls' = ncalls + 1
    /\ UNCHANGED <<products, aliases, inbox, clients, next_pid, next_iid, slots, nfe_xmls, approved, imported, norm>>

\* db.approve_inbox_create_product(s, inbox_id, store_id, code, name, ncm, unit, cst_icms)
BeginApproveCreateProduct(t, inbox_id, store, code, name, tax) ==
    /\ t \in slots /\ tx[t].pc = "idle"
    /\ Set(t, [Idle EXCEPT !.op = "approve_inbox_create_product", !.pc = "upsert_select",
                           !.inbox_id = inbox_id, !.store = store, !.code = code,
                           !.name = name, !.tax = tax])
    /\ ncalls < MaxCalls /\ ncalls' = ncalls + 1
    /\ UNCHANGED <<products, aliases, inbox, clients, next_pid, next_iid, slots, nfe_xmls, approved, imported, norm>>

(***************************************************************************)
(* Locks.  A statement that needs a lock another transaction holds waits   *)
(* until that transaction ends.                                            *)
(***************************************************************************)
Others(t) == slots \ {t}

\* SELECT ... FOR UPDATE conflicts with every lock of another transaction on the row
ForUpdateBlockers(t, ids) ==
    {u \in Others(t) : ids \cap (tx[u].plock \cup tx[u].kshare) # {}}

\* the unique index on products.code: an in-flight insert of the same code
CodeKeyBlockers(t, code) ==
    {u \in Others(t) : ProductsByCode(tx[u].pins, code) # {}}

\* the unique index uq_alias_per_store: an in-flight insert of the same pair
AliasKeyBlockers(t, store, alias_norm) ==
    {u \in Others(t) : AliasesOfPair(tx[u].ains, store, alias_norm) # {}}

\* the foreign-key check takes FOR KEY SHARE on the referenced product, which
\* conflicts with another transaction's FOR UPDATE
KeyShareBlockers(t, ids) ==
    {u \in Others(t) : ids \cap tx[u].plock # {}}

\* SELECT ... FROM clients WHERE documento=:d FOR UPDATE
ClientLockBlockers(t, store) ==
    {u \in Others(t) : store \in tx[u].clock}

\* the unique index on clients.documento: an in-flight insert of the documento
ClientKeyBlockers(t, store) ==
    {u \in Others(t) : store \in tx[u].cins}

\* DELETE of a row another transaction has deleted and not yet committed
DeleteBlockers(t, id) ==
    {u \in Others(t) : id \in tx[u].idel}

\* the transactions session t is waiting for at its current statement
Blockers(t) ==
    LET r == tx[t] IN
    CASE r.pc = "upsert_select" ->
            ForUpdateBlockers(t, Ids(ProductsByCode(VisProducts(t), r.code)))
      [] r.pc = "upsert_insert" ->
            IF ProductsByCode(products, r.code) # {} THEN {}
            ELSE CodeKeyBlockers(t, r.code)
      [] r.pc = "alias_insert" ->
            IF AliasesOfPair(VisAliases(t), r.store, normalize_name(r.name)) # {} THEN {}
            ELSE AliasKeyBlockers(t, r.store, normalize_name(r.name))
      [] r.pc = "alias_fk" ->
            KeyShareBlockers(t, {r.apid})
      [] r.pc = "enqueue" ->
            KeyShareBlockers(t, {r.spid[i] : i \in DOMAIN r.spid})
      [] r.pc = "inbox_delete" ->
            DeleteBlockers(t, r.inbox_id)
      [] r.pc = "client_select" ->
            IF r.store \in clients THEN ClientLockBlockers(t, r.store) ELSE {}
      [] r.pc = "client_insert" ->
            IF r.store \in clients THEN {} ELSE ClientKeyBlockers(t, r.store)
      [] OTHER -> {}

(***************************************************************************)
(* Statements                                                              *)
(***************************************************************************)
\* the statement raises: the error kind and the statement it came from
Fail(t, kind) ==
    Set(t, [tx[t] EXCEPT !.pc = "failed", !.err = Some([kind |-> kind, at |-> tx[t].pc])])

\* where upsert_product_by_code returns to, with the product id it found or made
AfterUpsert(r, id) ==
    IF r.op = "upsert_product_by_code"
    THEN [r EXCEPT !.pc = "returned", !.prod_id = Some(id),
                   !.result = Some([status |-> "product", product_id |-> id])]
    ELSE [r EXCEPT !.pc = "alias_insert", !.prod_id = Some(id), !.apid = id,
                   !.branch = IF r.op = "import_row" THEN "upsert_by_code" ELSE "approve"]

\* SELECT * FROM products WHERE code=:code FOR UPDATE, and the UPDATE of the
\* row found (db.py 154-166)
UpsertSelect(t) ==
    LET r == tx[t]
        found == ProductsByCode(VisProducts(t), r.code)
        first == CHOOSE p \in found : TRUE
        own == {p \in found : p.id \in Ids(r.pins)}
        upd(rows) == {UpdatedProduct(p, r.name, r.tax) : p \in rows}
    IN  /\ t \in slots /\ r.pc = "upsert_select"
        /\ Blockers(t) = {}
        /\ IF found = {}
           THEN Set(t, [r EXCEPT !.pc = "upsert_insert"])
           ELSE Set(t, [AfterUpsert(r, first.id) EXCEPT
                          !.plock = @ \cup Ids(found),
                          !.pins = (@ \ own) \cup upd(own),
                          !.pupd = {p \in @ : p.id \notin Ids(found)}
                                      \cup upd(found \ own)])
        /\ UNCHANGED <<products, aliases, inbox, clients, next_pid, next_iid, ncalls, slots, nfe_xmls, approved, imported, norm>>

\* INSERT INTO products ..., then SELECT id and s.get (db.py 168-175)
UpsertInsert(t) ==
    LET r == tx[t] IN
    /\ t \in slots /\ r.pc = "upsert_insert"
    /\ Blockers(t) = {}
    /\ next_pid' = next_pid + 1
    /\ IF r.code = None THEN Fail(t, "not_null_violation")
       ELSE IF ProductsByCode(products, r.code) # {} THEN Fail(t, "unique_violation")
       ELSE Set(t, [AfterUpsert(r, next_pid) EXCEPT
                      !.pins = @ \cup {NewProduct(next_pid, r.code, r.name, r.tax)}])
    /\ UNCHANGED <<products, aliases, inbox, clients, next_iid, ncalls, slots, nfe_xmls, approved, imported, norm>>

\* where ensure_alias returns to
\* variant: a line that resolves a name also clears the inbox rows of that name
AfterAlias_ClearsInbox(r) ==
    IF r.op = "import_row"
    THEN [r EXCEPT !.pc = "returned",
                   !.idel = @ \cup {i.id : i \in {j \in inbox :
                                 /\ j.store_id = r.store
                                 /\ normalize_name(j.raw_name) = normalize_name(r.name)}},
                   !.result = Some([status |-> r.branch, product_id |-> r.apid])]
    ELSE IF r.op = "ensure_alias" THEN [r EXCEPT !.pc = "returned"]
    ELSE [r EXCEPT !.pc = "inbox_delete"]

AfterAlias(r) ==
    IF r.op = "import_row"
    THEN [r EXCEPT !.pc = "returned",
                   !.result = Some([status |-> r.branch, product_id |-> r.apid])]
    ELSE IF r.op = "ensure_alias" THEN [r EXCEPT !.pc = "returned"]
    ELSE [r EXCEPT !.pc = "inbox_delete"]

\* product_aliases.id: the rows are told apart by it and nothing reads it
FreeAliasId ==
    LET used == Ids(aliases) \cup UNION {Ids(tx[u].ains) : u \in Slots}
    IN  CHOOSE n \in 1..(Cardinality(used) + 1) : n \notin used

\* variant: the INSERT without its ON CONFLICT clause
AliasInsert_NoConflictClause(t) ==
    LET r == tx[t] IN
    /\ t \in slots /\ r.pc = "alias_insert"
    /\ Blockers(t) = {}
    /\ IF AliasesOfPair(VisAliases(t), r.store, normalize_name(r.name)) # {}
       THEN Fail(t, "unique_violation")
       ELSE Set(t, [r EXCEPT !.pc = "alias_fk",
                             !.ains = @ \cup {NewAlias(FreeAliasId, r.apid, r.store, r.name)}])
    /\ UNCHANGED <<products, aliases, inbox, clients, next_pid, next_iid, ncalls, slots, nfe_xmls, approved, imported, norm>>

\* variant: ON CONFLICT (store_id, alias_norm) DO UPDATE SET product_id
AliasInsert_Repoint(t) ==
    LET r == tx[t]
        old == AliasesOfPair(VisAliases(t), r.store, normalize_name(r.name))
    IN  /\ t \in slots /\ r.pc = "alias_insert"
        /\ Blockers(t) = {}
        /\ IF old # {}
           THEN Set(t, [AfterAlias(r) EXCEPT
                          !.ains = (@ \ old)
                                     \cup {[a EXCEPT !.product_id = r.apid] : a \in old}])
           ELSE Set(t, [r EXCEPT !.pc = "alias_fk",
                                 !.ains = @ \cup {NewAlias(FreeAliasId, r.apid, r.store, r.name)}])
        /\ UNCHANGED <<products, aliases, inbox, clients, next_pid, next_iid, ncalls, slots, nfe_xmls, approved, imported, norm>>

\* variant: on a conflict the caller returns at once, skipping what follows
AliasInsert_ConflictReturns(t) ==
    LET r == tx[t] IN
    /\ t \in slots /\ r.pc = "alias_insert"
    /\ Blockers(t) = {}
    /\ IF AliasesOfPair(VisAliases(t), r.store, normalize_name(r.name)) # {}
       THEN Set(t, [AfterAlias(r) EXCEPT !.pc = "returned"])
       ELSE Set(t, [r EXCEPT !.pc = "alias_fk",
                             !.ains = @ \cup {NewAlias(FreeAliasId, r.apid, r.store, r.name)}])
    /\ UNCHANGED <<products, aliases, inbox, clients, next_pid, next_iid, ncalls, slots, nfe_xmls, approved, imported, norm>>

\* variant: ON CONFLICT (store_id, alias_norm) DO UPDATE SET alias
AliasInsert_RefreshText(t) ==
    LET r == tx[t]
        old == AliasesOfPair(VisAliases(t), r.store, normalize_name(r.name))
    IN  /\ t \in slots /\ r.pc = "alias_insert"
        /\ Blockers(t) = {}
        /\ IF old # {}
           THEN Set(t, [AfterAlias(r) EXCEPT
                          !.ains = (@ \ old) \cup {[a EXCEPT !.alias = r.name] : a \in old}])
           ELSE Set(t, [r EXCEPT !.pc = "alias_fk",
                                 !.ains = @ \cup {NewAlias(FreeAliasId, r.apid, r.store, r.name)}])
        /\ UNCHANGED <<products, aliases, inbox, clients, next_pid, next_iid, ncalls, slots, nfe_xmls, approved, imported, norm>>

\* INSERT INTO product_aliases ... ON CONFLICT (store_id, alias_norm) DO NOTHING:
\* the row goes in unless a row of the pair is there (db.py 178-183)
AliasInsert(t) ==
    LET r == tx[t] IN
    /\ t \in slots /\ r.pc = "alias_insert"
    /\ Blockers(t) = {}
    /\ IF AliasesOfPair(VisAliases(t), r.store, normalize_name(r.name)) # {}
       THEN Set(t, AfterAlias(r))
       ELSE Set(t, [r EXCEPT !.pc = "alias_fk",
                             !.ains = @ \cup {NewAlias(FreeAliasId, r.apid, r.store, r.name)}])
    /\ UNCHANGED <<products, aliases, inbox, clients, next_pid, next_iid, ncalls, slots, nfe_xmls, approved, imported, norm>>

\* the check of product_aliases.product_id REFERENCES products.id that ends the INSERT
AliasFk(t) ==
    LET r == tx[t] IN
    /\ t \in slots /\ r.pc = "alias_fk"
    /\ Blockers(t) = {}
    /\ IF r.apid \notin Ids(products \cup r.pins)
       THEN Fail(t, "foreign_key_violation")
       ELSE Set(t, [AfterAlias(r) EXCEPT !.kshare = @ \cup {r.apid}])
    /\ UNCHANGED <<products, aliases, inbox, clients, next_pid, next_iid, ncalls, slots, nfe_xmls, approved, imported, norm>>

\* variant: the lookup compares alias_norm with the name as given
AliasLookup_RawName(t) ==
    LET r == tx[t]
        ids == AliasLookupIds(VisAliases(t), VisProducts(t), r.store, r.name)
    IN  /\ t \in slots /\ r.pc = "alias_lookup"
        /\ IF ids = {}
           THEN Set(t, [r EXCEPT !.pc = "suggest"])
           ELSE \E pid \in ids :
                  Set(t, [r EXCEPT !.pc = "alias_insert", !.apid = pid,
                                   !.branch = "matched_by_alias"])
        /\ UNCHANGED <<products, aliases, inbox, clients, next_pid, next_iid, ncalls, slots, nfe_xmls, approved, imported, norm>>

\* variant: the lookup without its store_id condition
AliasLookup_AnyStore(t) ==
    LET r == tx[t]
        ids == {a.product_id : a \in {b \in VisAliases(t) :
                                        b.alias_norm = normalize_name(r.name)}}
                 \cap Ids(VisProducts(t))
    IN  /\ t \in slots /\ r.pc = "alias_lookup"
        /\ IF ids = {}
           THEN Set(t, [r EXCEPT !.pc = "suggest"])
           ELSE \E pid \in ids :
                  Set(t, [r EXCEPT !.pc = "alias_insert", !.apid = pid,
                                   !.branch = "matched_by_alias"])
        /\ UNCHANGED <<products, aliases, inbox, clients, next_pid, next_iid, ncalls, slots, nfe_xmls, approved, imported, norm>>

\* the exact-alias SELECT ... LIMIT 1 and "if pid:" (db.py 283-291)
AliasLookup(t) ==
    LET r == tx[t]
        ids == AliasLookupIds(VisAliases(t), VisProducts(t), r.store, normalize_name(r.name))
    IN  /\ t \in slots /\ r.pc = "alias_lookup"
        /\ IF ids = {}
           THEN Set(t, [r EXCEPT !.pc = "suggest"])
           ELSE \E pid \in ids :
                  IF pid # 0
                  THEN Set(t, [r EXCEPT !.pc = "alias_insert", !.apid = pid,
                                        !.branch = "matched_by_alias"])
                  ELSE Set(t, [r EXCEPT !.pc = "suggest"])
        /\ UNCHANGED <<products, aliases, inbox, clients, next_pid, next_iid, ncalls, slots, nfe_xmls, approved, imported, norm>>

\* spid, score = best_suggestion(s, name, min_score=min_fuzzy_score) (db.py 296)
Suggest(t) ==
    LET r == tx[t] IN
    /\ t \in slots /\ r.pc = "suggest"
    /\ \E importable \in BOOLEAN :
       \E res \in best_suggestion(VisProducts(t), r.name, r.min, importable) :
         Set(t, [r EXCEPT !.pc = "enqueue", !.fuzz = importable,
                          !.spid = res.spid, !.score = res.score])
    /\ UNCHANGED <<products, aliases, inbox, clients, next_pid, next_iid, ncalls, slots, nfe_xmls, approved, imported, norm>>

\* variant: a suggestion that clears the threshold is linked as an alias
Enqueue_AutoLink(t) ==
    LET r == tx[t]
        row == NewInboxRow(next_iid, r.store, r.name, r.code, r.tax.ncm, r.tax.unit,
                           "no_match", r.spid,
                           IF ScoreIsZero(r.score) THEN None ELSE Some(r.score))
        link == {NewAlias(FreeAliasId, r.spid[i], r.store, r.name) : i \in DOMAIN r.spid}
    IN  /\ t \in slots /\ r.pc = "enqueue"
        /\ Blockers(t) = {}
        /\ next_iid' = next_iid + 1
        /\ Set(t, [r EXCEPT !.pc = "returned",
                            !.iins = @ \cup {row},
                            !.ains = @ \cup link,
                            !.kshare = @ \cup {r.spid[i] : i \in DOMAIN r.spid},
                            !.result = Some([status |-> "queued_inbox",
                                             suggested_product_id |-> r.spid,
                                             score |-> r.score])])
        /\ UNCHANGED <<products, aliases, inbox, clients, next_pid, ncalls, slots, nfe_xmls, approved, imported, norm>>

\* enqueue_inbox(..., reason="no_match", suggested_product_id=spid,
\* score=score or None) and the return of queued_inbox (db.py 297-301)
Enqueue(t) ==
    LET r == tx[t]
        row == NewInboxRow(next_iid, r.store, r.name, r.code, r.tax.ncm, r.tax.unit,
                           "no_match", r.spid,
                           IF ScoreIsZero(r.score) THEN None ELSE Some(r.score))
    IN  /\ t \in slots /\ r.pc = "enqueue"
        /\ Blockers(t) = {}
        /\ next_iid' = next_iid + 1
        /\ Set(t, [r EXCEPT !.pc = "returned",
                            !.iins = @ \cup {row},
                            !.kshare = @ \cup {r.spid[i] : i \in DOMAIN r.spid},
                            !.result = Some([status |-> "queued_inbox",
                                             suggested_product_id |-> r.spid,
                                             score |-> r.score])])
        /\ UNCHANGED <<products, aliases, inbox, clients, next_pid, ncalls, slots, nfe_xmls, approved, imported, norm>>

\* variant: the DELETE takes every inbox row of the store of the row named
InboxDelete_WholeStore(t) ==
    LET r == tx[t]
        named == {i \in VisInbox(t) : i.id = r.inbox_id}
        gone == {i \in VisInbox(t) : \E n \in named : i.store_id = n.store_id}
    IN  /\ t \in slots /\ r.pc = "inbox_delete"
        /\ Blockers(t) = {}
        /\ Set(t, [r EXCEPT !.pc = "returned",
                            !.idel = @ \cup Ids(gone),
                            !.result = IF r.op = "approve_inbox_create_product"
                                       THEN Some([status |-> "product",
                                                  product_id |-> r.prod_id[1]])
                                       ELSE None])
        /\ UNCHANGED <<products, aliases, inbox, clients, next_pid, next_iid, ncalls, slots, nfe_xmls, approved, imported, norm>>

\* DELETE FROM product_inbox WHERE id=:id, and the return of approve_*
InboxDelete(t) ==
    LET r == tx[t] IN
    /\ t \in slots /\ r.pc = "inbox_delete"
    /\ Blockers(t) = {}
    /\ Set(t, [r EXCEPT !.pc = "returned",
                        !.idel = IF r.inbox_id \in Ids(VisInbox(t))
                                 THEN @ \cup {r.inbox_id} ELSE @,
                        !.result = IF r.op = "approve_inbox_create_product"
                                   THEN Some([status |-> "product",
                                              product_id |-> r.prod_id[1]])
                                   ELSE None])
    /\ UNCHANGED <<products, aliases, inbox, clients, next_pid, next_iid, ncalls, slots, nfe_xmls, approved, imported, norm>>

(***************************************************************************)
(* importar_xml_document: one transaction for a whole invoice              *)
(***************************************************************************)
\* a <det> line of the invoice as parse_nfe_xml returns it
Line(name, code, tax) == [name |-> name, code |-> code, tax |-> tax]

\* the document parse_nfe_xml reads from the bytes: the recipient's documento
\* and the <det> lines
Xml(store, items) == [store |-> store, items |-> items]

\* hashlib.sha256(xml_bytes).hexdigest(): equal for equal bytes, and taken to
\* differ for different ones
Sha256(xml) == [digest |-> xml]

\* importar_xml_document(session, xml_bytes, filename) inside session.begin():
\* the look for a stored row of the hash, and the return of "duplicated" when
\* there is one (nfe_business.py 357-374)
BeginBatch(t, store, items) ==
    LET xml == Xml(store, items)
        existing == {x \in nfe_xmls : x.hash = Sha256(xml)}
    IN  /\ t \in slots /\ tx[t].pc = "idle"
        /\ IF existing # {}
           THEN Set(t, [Idle EXCEPT !.op = "importar_xml_document", !.pc = "duplicated",
                                   !.batch = TRUE, !.xml = Some(xml),
                                   !.result = Some([status |-> "duplicated"])])
           ELSE Set(t, [Idle EXCEPT !.op = "importar_xml_document", !.pc = "client_select",
                                   !.batch = TRUE, !.store = store, !.items = items,
                                   !.xml = Some(xml)])
    /\ ncalls < MaxCalls /\ ncalls' = ncalls + 1
    /\ UNCHANGED <<products, aliases, inbox, clients, next_pid, next_iid, slots, nfe_xmls, approved, imported, norm>>

\* upsert_client: SELECT ... WHERE documento=:d FOR UPDATE and the UPDATE of
\* the row found (nfe_business.py 110-115, 120)
ClientSelect(t) ==
    LET r == tx[t] IN
    /\ t \in slots /\ r.pc = "client_select"
    /\ Blockers(t) = {}
    /\ IF r.store \in clients
       THEN Set(t, [r EXCEPT !.pc = "item", !.clock = @ \cup {r.store}])
       ELSE Set(t, [r EXCEPT !.pc = "client_insert"])
    /\ UNCHANGED <<products, aliases, inbox, clients, next_pid, next_iid, ncalls, slots, nfe_xmls, approved, imported, norm>>

\* upsert_client: session.add(Client(...)) and session.flush() (nfe_business.py 116-120)
ClientInsert(t) ==
    LET r == tx[t] IN
    /\ t \in slots /\ r.pc = "client_insert"
    /\ Blockers(t) = {}
    /\ IF r.store \in clients
       THEN Fail(t, "unique_violation")
       ELSE Set(t, [r EXCEPT !.pc = "item", !.cins = @ \cup {r.store}])
    /\ UNCHANGED <<products, aliases, inbox, clients, next_pid, next_iid, ncalls, slots, nfe_xmls, approved, imported, norm>>

\* for produto in parsed["produtos"]: db.import_row(session, store_id=..., ...,
\* min_fuzzy_score=90), in the open transaction (nfe_business.py 379-397)
LoopItem(t) ==
    LET r == tx[t]
        line == Head(r.items)
    IN  /\ t \in slots /\ r.batch /\ r.pc \in {"item", "returned"}
        /\ IF r.items = <<>>
           THEN Set(t, [r EXCEPT !.pc = "nfe_new"])
           ELSE Set(t, [r EXCEPT !.op = "import_row",
                                 !.pc = IF Truthy(line.code) THEN "upsert_select"
                                        ELSE "alias_lookup",
                                 !.name = line.name, !.code = line.code,
                                 !.tax = line.tax, !.min = DefaultMinScore,
                                 !.items = Tail(@),
                                 !.apid = 0, !.prod_id = None, !.spid = None,
                                 !.score = <<0, 1>>, !.fuzz = TRUE, !.branch = "none",
                                 !.result = None])
        /\ UNCHANGED <<products, aliases, inbox, clients, next_pid, next_iid, ncalls, slots, nfe_xmls, approved, imported, norm>>

\* db.NfeXml(client_id=..., ..., cancelada=...): the model class has no
\* attribute cancelada, the constructor raises TypeError (nfe_business.py 401-409)
NfeNew(t) ==
    /\ t \in slots /\ tx[t].pc = "nfe_new"
    /\ Fail(t, "type_error")
    /\ imported' = imported \cup {Sha256(tx[t].xml[1])}
    /\ UNCHANGED <<products, aliases, inbox, clients, next_pid, next_iid, ncalls, slots, nfe_xmls, approved, norm>>

(***************************************************************************)
(* Transaction end                                                         *)
(***************************************************************************)
\* the call returned and the caller commits
Commit(t) ==
    /\ t \in slots /\ tx[t].pc = "returned" /\ ~tx[t].batch
    /\ products' = VisProducts(t)
    /\ aliases' = VisAliases(t)
    /\ inbox' = VisInbox(t)
    /\ clients' = clients \cup tx[t].cins
    /\ approved' = approved \cup
         IF tx[t].op = "approve_inbox_create_product"
         THEN {[store_id |-> i.store_id, raw_name |-> i.raw_name,
                product_id |-> tx[t].prod_id[1]] :
                   i \in {j \in inbox : j.id = tx[t].inbox_id}}
         ELSE {}
    /\ Set(t, Idle)
    /\ UNCHANGED <<next_pid, next_iid, ncalls, slots, nfe_xmls, imported, norm>>

\* variant: the rows flushed before the error stay in the tables
Rollback_KeepsWrites(t) ==
    /\ t \in slots /\ tx[t].pc = "failed"
    /\ products' = VisProducts(t)
    /\ aliases' = VisAliases(t)
    /\ inbox' = VisInbox(t)
    /\ clients' = clients \cup tx[t].cins
    /\ Set(t, Idle)
    /\ UNCHANGED <<next_pid, next_iid, ncalls, slots, nfe_xmls, approved, imported, norm>>

\* the call raised and the caller rolls back
Rollback(t) ==
    /\ t \in slots /\ tx[t].pc = "failed"
    /\ Set(t, Idle)
    /\ UNCHANGED <<products, aliases, inbox, clients, next_pid, next_iid, ncalls, slots, nfe_xmls, approved, imported, norm>>

\* the transactions that t waits for, directly or through others
RECURSIVE WaitClosure(_, _)
WaitClosure(frontier, seen) ==
    LET more == (UNION {Blockers(u) : u \in frontier}) \ seen
    IN  IF more = {} THEN seen ELSE WaitClosure(more, seen \cup more)

InWaitCycle(t) == t \in WaitClosure({t}, {})

\* the deadlock detector aborts a transaction of a wait cycle
DeadlockAbort(t) ==
    /\ t \in slots /\ InWaitCycle(t)
    /\ Fail(t, "deadlock_detected")
    /\ UNCHANGED <<products, aliases, inbox, clients, next_pid, next_iid, ncalls, slots, nfe_xmls, approved, imported, norm>>

\* a product is retired (active = false) outside the pipeline
Retire(id) ==
    /\ \A t \in slots : tx[t].pc = "idle"
    /\ \E p \in products :
         /\ p.id = id /\ p.active
         /\ products' = (products \ {p}) \cup {[p EXCEPT !.active = FALSE]}
    /\ UNCHANGED <<aliases, inbox, clients, next_pid, next_iid, ncalls, slots, tx, nfe_xmls, approved, imported, norm>>

(***************************************************************************)
(* Specifications                                                          *)
(***************************************************************************)
\* the arguments tried: tax fields vary where a product row takes them, the
\* threshold where a suggestion is computed (90 is import_row's default)
ImportRowArgs ==
    {<<code, tax, DefaultMinScore>> : code \in {Some(c) : c \in Codes}, tax \in TaxInputs}
    \cup {<<code, NoTax, min>> : code \in {None, Some("")}, min \in MinScores}

Call(t) ==
    \/ \E store \in Stores, name \in Names, a \in ImportRowArgs :
         BeginImportRow(t, store, name, a[1], a[2], a[3])
    \/ \E code \in CodeArgs, name \in Names, tax \in TaxInputs :
         BeginUpsert(t, code, name, tax)
    \/ \E pid \in PidArgs, store \in Stores, alias \in Names :
         BeginEnsureAlias(t, pid, store, alias)
    \/ \E id \in InboxIdArgs, pid \in PidArgs, store \in Stores, alias \in Names :
         BeginApproveLinkAlias(t, id, pid, store, alias)
    \/ \E id \in InboxIdArgs, store \in Stores, code \in CodeArgs, name \in Names :
         BeginApproveCreateProduct(t, id, store, code, name, SomeTax)

ImportStatement(t) ==
    \/ UpsertSelect(t)
    \/ UpsertInsert(t)
    \/ AliasInsert(t)
    \/ AliasFk(t)
    \/ AliasLookup(t)
    \/ Suggest(t)
    \/ Enqueue(t)

Statement(t) == ImportStatement(t) \/ InboxDelete(t)

\* no call made yet; no invoice stored, as none ever is (see NfeNew)
NoCalls ==
    /\ ncalls = 0 /\ tx = [t \in Slots |-> Idle]
    /\ nfe_xmls = {} /\ approved = {} /\ imported = {}

\* the database after init_db
EmptyDb ==
    /\ products = {} /\ aliases = {} /\ inbox = {} /\ clients = {}
    /\ next_pid = 1 /\ next_iid = 1
    /\ NoCalls

\* the database after import_row("A", "PACOTE", "c1", ncm, unit, cst, 90) and
\* import_row("A", "PACOTES", "", None, None, None, 90): a product, its alias
\* for store A, and an inbox row that suggests the product with score 92.31;
\* client A is registered (app.py 962-968)
SeedDb ==
    /\ clients = {"A"}
    /\ products = {NewProduct(1, Some("c1"), NamePacote, SomeTax)}
    /\ aliases = {NewAlias(1, 1, "A", NamePacote)}
    /\ inbox = {NewInboxRow(1, "A", NamePacotes, Some(""), None, None, "no_match",
                            Some(1), Some(<<1200, 13>>))}
    /\ next_pid = 2 /\ next_iid = 2
    /\ NoCalls

\* one session: every call runs and commits alone
Init == (EmptyDb \/ SeedDb) /\ slots = {"T1"} /\ norm = <<>>

Next ==
    \/ \E t \in Slots : Call(t) \/ Statement(t) \/ Commit(t) \/ Rollback(t)
    \/ \E id \in PidArgs : Retire(id)

Spec == Init /\ [][Next]_vars

\* two sessions over the seeded database, each call its own transaction, in
\* any interleaving
ConcInit == SeedDb /\ slots = Slots /\ norm = <<>>

ConcNext ==
    \E t \in Slots :
        Call(t) \/ Statement(t) \/ Commit(t) \/ Rollback(t) \/ DeadlockAbort(t)

ConcSpec == ConcInit /\ [][ConcNext]_vars

\* the lines of the invoices tried: two coded products, and a line with no
\* code whose name is another spelling of the name of the first
Lines ==
    {Line(NamePct, Some("c1"), SomeTax), Line(NamePacotes, Some("c2"), SomeTax),
     Line(NamePacote, Some(""), NoTax)}

Invoices == UNION {[1..n -> Lines] : n \in 1..MaxItems}

\* the catalog after import_row of both codes for store A; client A is registered
BatchDb ==
    /\ products = {NewProduct(1, Some("c1"), NamePacote, SomeTax),
                   NewProduct(2, Some("c2"), NamePacotes, SomeTax)}
    /\ aliases = {NewAlias(1, 1, "A", NamePacote), NewAlias(2, 2, "A", NamePacotes)}
    /\ inbox = {}
    /\ clients = {"A"}
    /\ next_pid = 3 /\ next_iid = 1
    /\ NoCalls

\* two sessions, each importing one invoice in one transaction
BatchInit == (SeedDb \/ BatchDb) /\ slots = Slots /\ norm = <<>>

\* no transaction gets to commit: NfeXml(...) raises once the lines are done
BatchNext ==
    \E t \in Slots :
        \/ \E store \in Stores, items \in Invoices : BeginBatch(t, store, items)
        \/ ClientSelect(t)
        \/ ClientInsert(t)
        \/ LoopItem(t)
        \/ ImportStatement(t)
        \/ NfeNew(t)
        \/ Rollback(t)
        \/ DeadlockAbort(t)

BatchSpec == BatchInit /\ [][BatchNext]_vars

\* normalize_name applied to a text, and again to what it returned
Normalize ==
    /\ norm # <<>> /\ Len(norm) < 3
    /\ norm' = Append(norm, normalize_name(norm[Len(norm)]))
    /\ UNCHANGED <<products, aliases, inbox, clients, next_pid, next_iid, ncalls,
                   slots, tx, nfe_xmls, approved, imported>>

NormInit == EmptyDb /\ slots = {} /\ norm \in {<<x>> : x \in Texts}

NormNext == Normalize

NormSpec == NormInit /\ [][NormNext]_vars

(***************************************************************************)
(* Properties of single calls (specification Spec: one session, so while a *)
(* call runs the committed tables are the state the call started from)     *)
(***************************************************************************)
InCall(t) == tx[t].pc \notin {"idle", "returned", "failed"}
Returned(t, op) == tx[t].op = op /\ tx[t].pc = "returned"
Status(t) == tx[t].result[1].status
Outcomes == {"upsert_by_code", "matched_by_alias", "queued_inbox"}

\* the alias rows of the call's (store_id, normalize(name)) when it started
PairBefore(t) == AliasesOfPair(aliases, tx[t].store, normalize_name(tx[t].name))

\* C1: import_row never raises, never waits on another session, and returns
\* one of the three outcomes upsert_by_code, matched_by_alias, queued_inbox
C1_ImportRowTotal ==
    \A t \in slots :
        tx[t].op = "import_row" =>
            /\ tx[t].pc # "failed"
            /\ InCall(t) => Blockers(t) = {}
            /\ tx[t].pc = "returned" =>
                 /\ tx[t].result # None
                 /\ Status(t) \in Outcomes

C1_Witness ==
    \E t \in slots :
        /\ Returned(t, "import_row") /\ Status(t) = "queued_inbox"
        /\ tx[t].spid # None /\ products # {} /\ inbox # {}

\* C2: with a non-empty code import_row returns upsert_by_code with the
\* product of that code, never runs the alias lookup or the suggestion, and
\* writes no inbox row
C2_CodeShortCircuits ==
    \A t \in slots :
        (tx[t].op = "import_row" /\ Truthy(tx[t].code)) =>
            /\ tx[t].pc \notin {"alias_lookup", "suggest", "enqueue"}
            /\ tx[t].iins = {}
            /\ tx[t].pc = "returned" =>
                 /\ Status(t) = "upsert_by_code"
                 /\ \E p \in VisProducts(t) :
                      /\ p.code = tx[t].code[1]
                      /\ p.id = tx[t].result[1].product_id

\* a call with a code whose name already is an alias of another product of
\* the store, with a fuzzy candidate in the catalog
C2_Witness ==
    \E t \in slots :
        /\ Returned(t, "import_row") /\ Truthy(tx[t].code)
        /\ \E a \in PairBefore(t) : a.product_id # tx[t].result[1].product_id
        /\ \E p \in products : p.active

\* C3: with no code and an alias row of (store_id, normalize(name)),
\* import_row returns matched_by_alias with the product of that row
C3_AliasMatch ==
    \A t \in slots :
        (Returned(t, "import_row") /\ ~Truthy(tx[t].code) /\ PairBefore(t) # {}) =>
            /\ Status(t) = "matched_by_alias"
            /\ \A a \in PairBefore(t) : a.product_id = tx[t].result[1].product_id

\* the name is another spelling than the one the alias row was made from
C3_Witness ==
    \E t \in slots :
        /\ Returned(t, "import_row") /\ ~Truthy(tx[t].code)
        /\ \E a \in PairBefore(t) : a.alias # tx[t].name
        /\ Status(t) = "matched_by_alias"

\* C4: with no code, no alias of the pair and no active product, import_row
\* returns queued_inbox with no suggestion and the inbox row it writes has none
C4_NoCatalogNoSuggestion ==
    \A t \in slots :
        (/\ Returned(t, "import_row") /\ ~Truthy(tx[t].code)
         /\ PairBefore(t) = {}
         /\ {p \in products : p.active} = {}) =>
            /\ Status(t) = "queued_inbox"
            /\ tx[t].result[1].suggested_product_id = None
            /\ Cardinality(tx[t].iins) = 1
            /\ \A i \in tx[t].iins : i.suggested_product_id = None

\* the catalog holds a product, retired, whose name is the one looked for
C4_Witness ==
    \E t \in slots :
        /\ Returned(t, "import_row") /\ ~Truthy(tx[t].code)
        /\ PairBefore(t) = {}
        /\ products # {} /\ \A p \in products : ~p.active
        /\ \E p \in products : p.name_norm = normalize_name(tx[t].name)

\* an import_row call with no code and no alias of the pair commits
NoAliasCallCommits(t) ==
    /\ Returned(t, "import_row") /\ ~Truthy(tx[t].code) /\ PairBefore(t) = {}
    /\ tx'[t].pc = "idle"

\* C5: a call with no code and no exact alias only enqueues: its commit
\* leaves products and aliases as they were and adds exactly one inbox row,
\* whatever the score and the threshold
C5_NeverAutoLinks ==
    [][\A t \in slots :
         NoAliasCallCommits(t) =>
            /\ products' = products
            /\ aliases' = aliases
            /\ inbox \subseteq inbox'
            /\ Cardinality(inbox' \ inbox) = 1]_vars

\* the suggestion scored 100 and cleared the threshold
C5_Witness ==
    \E t \in slots :
        /\ Returned(t, "import_row") /\ Status(t) = "queued_inbox"
        /\ tx[t].spid # None
        /\ ScoreAtLeast(tx[t].score, 100)

\* the statement of ensure_alias raised
AliasRaised(t) ==
    /\ tx[t].pc = "failed"
    /\ tx[t].err[1].at \in {"alias_insert", "alias_fk"}

\* C7: once a row of (store_id, alias_norm) exists, a call that reaches
\* ensure_alias for the pair does not raise and writes no alias row, and no
\* step changes or removes an alias row, so the row keeps its product_id
C7_EnsureAliasIdempotent ==
    /\ [](\A t \in slots : PairBefore(t) # {} => ~AliasRaised(t) /\ tx[t].ains = {})
    /\ [][\A a \in aliases : a \in aliases']_vars

\* ensure_alias returned for a pair that belongs to another product
C7_Witness ==
    \E t \in slots :
        /\ tx[t].op \in {"ensure_alias", "approve_inbox_link_alias"}
        /\ tx[t].pc \in {"returned", "inbox_delete"}
        /\ \E a \in PairBefore(t) : a.product_id # tx[t].apid

\* the product rows session t sees with the code of its call
RowsOfCall(t) == ProductsByCode(VisProducts(t), tx[t].code)

\* C8: no two product rows share a code, and once upsert_product_by_code has
\* run the one row of its code carries the name and name_norm of that call
C8_UpsertOneRowLastName ==
    /\ \A p, q \in products : p.code = q.code => p = q
    /\ \A t \in slots :
         tx[t].prod_id # None =>
            /\ Cardinality(RowsOfCall(t)) = 1
            /\ \A p \in RowsOfCall(t) :
                 /\ p.id = tx[t].prod_id[1]
                 /\ p.name = tx[t].name
                 /\ p.name_norm = normalize_name(tx[t].name)

\* the second upsert of a code, with a name that normalizes differently
C8_Witness ==
    \E t \in slots :
        /\ Returned(t, "upsert_product_by_code")
        /\ \E p \in ProductsByCode(products, tx[t].code) :
             /\ p.name # tx[t].name
             /\ p.name_norm # normalize_name(tx[t].name)

(***************************************************************************)
(* Properties of concurrent transactions (ConcSpec, BatchSpec)             *)
(***************************************************************************)
\* session t was refused by the database because of another session: a
\* unique violation or a deadlock, raised by one of the statements ats
Refused(t, ats) ==
    /\ tx[t].pc = "failed"
    /\ tx[t].err[1].at \in ats
    /\ tx[t].err[1].kind \in {"unique_violation", "deadlock_detected"}

\* C6: under every interleaving no two alias rows share (store_id,
\* alias_norm), and no session's ensure_alias raises because of a racing one
C6_AliasRaceSafe ==
    /\ \A a, b \in aliases :
         (a.store_id = b.store_id /\ a.alias_norm = b.alias_norm) => a = b
    /\ \A t \in slots : ~Refused(t, {"alias_insert", "alias_fk"})

\* C9: concurrent upserts of one code serialize and both succeed, whether or
\* not the product exists when they start: no upsert is refused
C9_ConcurrentUpsertsSucceed ==
    \A t \in slots : ~Refused(t, {"upsert_select", "upsert_insert"})

\* C10: an invoice import that meets a lock of a concurrent import only
\* waits: no import is aborted by the deadlock detector
C10_LockWaitNeverAborts ==
    \A t \in slots :
        tx[t].batch => ~(tx[t].pc = "failed" /\ tx[t].err[1].kind = "deadlock_detected")

(***************************************************************************)
(* Properties of the product store and of ensure_alias (Spec)              *)
(***************************************************************************)
\* the calls that run upsert_product_by_code with a code the caller gives
UpsertOps == {"upsert_product_by_code", "approve_inbox_create_product"}

\* C11: upsert_product_by_code with an empty or null code, called directly or
\* by approve_inbox_create_product, returns no product and writes no product row
C11_EmptyCodeRejected ==
    \A t \in slots :
        (tx[t].op \in UpsertOps /\ ~Truthy(tx[t].code)) =>
            /\ tx[t].prod_id = None
            /\ tx[t].pins = {} /\ tx[t].pupd = {}
            /\ tx[t].pc # "returned"

\* C12: every product row, committed or written by an open transaction, has
\* name_norm = normalize_name(name)
C12_NameNormDerived ==
    /\ \A p \in products : p.name_norm = normalize_name(p.name)
    /\ \A t \in slots : \A p \in VisProducts(t) : p.name_norm = normalize_name(p.name)

\* an upsert has renamed a product to a name that is not its own normal form
C12_Witness ==
    \E t \in slots :
        /\ tx[t].pc = "returned"
        /\ \E p \in tx[t].pupd : \E q \in products :
             /\ q.id = p.id /\ q.name_norm # p.name_norm
             /\ p.name # p.name_norm

\* C13: no call writes an alias row for a product whose active flag is false
C13_InactiveTakesNoAlias ==
    \A t \in slots : \A a \in tx[t].ains :
        \A p \in VisProducts(t) : p.id = a.product_id => p.active

(***************************************************************************)
(* Properties of best_suggestion, read where import_row has its result     *)
(* (pc = "enqueue") and the products are those it was computed from (Spec) *)
(***************************************************************************)
Suggested(t) == tx[t].op = "import_row" /\ tx[t].pc = "enqueue"

\* the candidates: the active products, and the score of each against the name
Cands(t) == {p \in VisProducts(t) : p.active}
ScoreOf(t, p) == token_sort_ratio(normalize_name(tx[t].name), p.name_norm)
SameScore(s1, s2) == ~ScoreGreater(s1, s2) /\ ~ScoreGreater(s2, s1)

\* the result is no product and score 0
NoMatchZero(t) == tx[t].spid = None /\ ScoreIsZero(tx[t].score)

\* the returned score is the highest among the candidates; a product is
\* returned exactly when that score is >= min_score, and it attains the score
SuggestRule(t) ==
    /\ \A p \in Cands(t) : ~ScoreGreater(ScoreOf(t, p), tx[t].score)
    /\ \E p \in Cands(t) : SameScore(ScoreOf(t, p), tx[t].score)
    /\ tx[t].spid # None <=> ScoreAtLeast(tx[t].score, tx[t].min)
    /\ tx[t].spid # None =>
         \E p \in Cands(t) :
            p.id = tx[t].spid[1] /\ SameScore(ScoreOf(t, p), tx[t].score)

\* C14 as stated: whenever there are candidates, best_suggestion returns a
\* product iff the highest score is >= min_score, one that attains it, and
\* otherwise no product with the highest score observed
C14_SuggestIffThreshold ==
    \A t \in slots :
        Suggested(t) =>
            IF Cands(t) = {} THEN NoMatchZero(t) ELSE SuggestRule(t)

\* C14 amended: the rule holds when rapidfuzz can be imported; when it cannot,
\* best_suggestion returns no product and score 0 whatever the candidates
C14_SuggestIffThresholdWhenImportable ==
    \A t \in slots :
        Suggested(t) =>
            IF ~tx[t].fuzz \/ Cands(t) = {} THEN NoMatchZero(t) ELSE SuggestRule(t)

\* a product is returned with a score equal to the threshold
C14_Witness ==
    \E t \in slots :
        /\ Suggested(t) /\ tx[t].fuzz
        /\ tx[t].spid # None
        /\ SameScore(tx[t].score, <<tx[t].min, 1>>)

\* product id is that of an active product, as session t sees the table
ActiveId(t, id) == \E p \in VisProducts(t) : p.id = id /\ p.active

\* C15: the product best_suggestion returns, and the one on an inbox row when
\* the row is written, is active; with no active product the result is no match
C15_SuggestsOnlyActive ==
    \A t \in slots :
        /\ tx[t].spid # None => ActiveId(t, tx[t].spid[1])
        /\ \A i \in tx[t].iins :
             i.suggested_product_id # None => ActiveId(t, i.suggested_product_id[1])
        /\ (Suggested(t) /\ Cands(t) = {}) => NoMatchZero(t)

\* a product is suggested while a retired one would have scored higher
C15_Witness ==
    \E t \in slots :
        /\ Suggested(t) /\ tx[t].spid # None
        /\ \E p \in products :
             ~p.active /\ ScoreGreater(ScoreOf(t, p), tx[t].score)

(***************************************************************************)
(* Properties of the inbox                                                 *)
(***************************************************************************)
\* every inbox row there is: committed, or written by an open transaction
AllInboxRows == inbox \cup UNION {tx[u].iins : u \in Slots}

\* session t leaves the enqueue statement
LeavesEnqueue(t) == tx[t].pc = "enqueue" /\ tx'[t] # tx[t]

\* session t commits an import_row call
ImportCommits(t) == Returned(t, "import_row") /\ tx'[t].pc = "idle"

\* C16: every enqueue_inbox call returns and adds exactly one row with an id
\* no other row has, whatever rows of the same (store_id, name) exist, and the
\* commit adds the rows of the call to the inbox: nothing is deduplicated and
\* nothing is raised, within one transaction or across concurrent ones
C16_InboxNeverDeduplicated ==
    /\ [][\A t \in slots :
            LeavesEnqueue(t) =>
               /\ tx'[t].pc = "returned"
               /\ \E row \in tx'[t].iins :
                    /\ row.id \notin Ids(AllInboxRows)
                    /\ row.store_id = tx[t].store /\ row.raw_name = tx[t].name
                    /\ tx'[t].iins = tx[t].iins \cup {row}]_vars
    /\ [][\A t \in slots :
            ImportCommits(t) =>
               /\ inbox' = inbox \cup tx[t].iins
               /\ Ids(inbox) \cap Ids(tx[t].iins) = {}]_vars

\* the inbox without the row the approval names
InboxWithout(t) == {i \in inbox : i.id # tx[t].inbox_id}

\* C17: approve_inbox_link_alias leaves the alias of (store_id,
\* normalize(alias)) in place and deletes the inbox row inbox_id and no other;
\* when the pair already has an alias the call does not raise, still deletes
\* the row, and leaves the alias rows as they were
C17_LinkAliasDeletesAnyway ==
    \A t \in slots :
        tx[t].op = "approve_inbox_link_alias" =>
            /\ PairBefore(t) # {} => tx[t].pc # "failed"
            /\ tx[t].pc = "returned" =>
                 /\ VisInbox(t) = InboxWithout(t)
                 /\ PairBefore(t) # {} => VisAliases(t) = aliases
                 /\ PairBefore(t) = {} =>
                      /\ Cardinality(VisAliases(t)) = Cardinality(aliases) + 1
                      /\ \E a \in VisAliases(t) \ aliases :
                           /\ a.store_id = tx[t].store
                           /\ a.alias_norm = normalize_name(tx[t].name)
                           /\ a.product_id = tx[t].apid

\* the pair belongs to another product and the inbox row exists
C17_Witness ==
    \E t \in slots :
        /\ Returned(t, "approve_inbox_link_alias")
        /\ \E a \in PairBefore(t) : a.product_id # tx[t].apid
        /\ tx[t].inbox_id \in Ids(inbox)

\* the inbox row the approval names, if there is one
ApprovedRows(t) == {i \in inbox : i.id = tx[t].inbox_id}

\* C18: once approve_inbox_create_product has returned, the store has an
\* alias of the raw_name of the approved inbox row, pointing at the product
\* the call created or updated
C18_AliasFromInboxName ==
    \A t \in slots :
        Returned(t, "approve_inbox_create_product") =>
            \A i \in ApprovedRows(t) :
                \E a \in VisAliases(t) :
                    /\ a.store_id = tx[t].store
                    /\ a.alias_norm = normalize_name(i.raw_name)
                    /\ a.product_id = tx[t].prod_id[1]

\* C19: approve_inbox_create_product removes the inbox row inbox_id and no
\* other, and afterwards exactly one product has the code given, with the id
\* the call returns
C19_CreateProductFrame ==
    \A t \in slots :
        Returned(t, "approve_inbox_create_product") =>
            /\ VisInbox(t) = InboxWithout(t)
            /\ Cardinality(RowsOfCall(t)) = 1
            /\ \A p \in RowsOfCall(t) : p.id = tx[t].result[1].product_id

\* the row approved is there and is not the only one of its store
C19_Witness ==
    \E t \in slots :
        /\ Returned(t, "approve_inbox_create_product")
        /\ \E i, j \in inbox :
             i.id = tx[t].inbox_id /\ j.id # i.id /\ j.store_id = i.store_id

ApproveOps == {"approve_inbox_link_alias", "approve_inbox_create_product"}

\* C20: only an approval destroys an inbox row: a call that is not an approve_*
\* never deletes or changes an inbox row, in its transaction or at its commit,
\* so without approvals the inbox only grows
C20_OnlyApprovalRemoves ==
    /\ [](\A t \in slots :
            tx[t].op \notin ApproveOps =>
                /\ tx[t].idel = {}
                /\ inbox \subseteq VisInbox(t))
    /\ [][(\A t \in slots : tx[t].op \notin ApproveOps) => inbox \subseteq inbox']_vars

\* a line resolves, by code or by alias, a name that waits in the inbox
C20_Witness ==
    \E t \in slots :
        /\ Returned(t, "import_row")
        /\ Status(t) \in {"upsert_by_code", "matched_by_alias"}
        /\ \E i \in inbox :
             /\ i.store_id = tx[t].store
             /\ normalize_name(i.raw_name) = normalize_name(tx[t].name)

(***************************************************************************)
(* Frame properties of import_row and upsert_product_by_code (Spec)        *)
(***************************************************************************)
\* session t has written nothing: what it sees is what is committed
WroteNothing(t) ==
    /\ VisProducts(t) = products
    /\ VisAliases(t) = aliases
    /\ VisInbox(t) = inbox

\* C24: an import_row call that returns matched_by_alias found an alias row
\* of (store_id, normalize(name)), so its ensure_alias inserts nothing: the
\* call, and its commit, leave products, aliases and inbox as they were
C24_AliasMatchChangesNothing ==
    /\ [](\A t \in slots :
            (Returned(t, "import_row") /\ Status(t) = "matched_by_alias") =>
                /\ PairBefore(t) # {}
                /\ WroteNothing(t))
    /\ [][\A t \in slots :
            (Returned(t, "import_row") /\ Status(t) = "matched_by_alias"
               /\ tx'[t].pc = "idle") =>
                /\ products' = products
                /\ aliases' = aliases
                /\ inbox' = inbox]_vars

\* the name matched is spelled otherwise than the alias row was
C24_Witness ==
    \E t \in slots :
        /\ Returned(t, "import_row") /\ Status(t) = "matched_by_alias"
        /\ \A a \in PairBefore(t) : a.alias # tx[t].name
        /\ inbox # {}

\* the alias rows of other stores with the normalized name of the call
PairElsewhere(t) ==
    {a \in aliases : /\ a.store_id # tx[t].store
                     /\ a.alias_norm = normalize_name(tx[t].name)}

\* C28: a line with no code returns matched_by_alias exactly when an alias
\* row of its own store has the normalized name, and then with the product of
\* such a row: the rows of other stores count for nothing
C28_AliasesPerStore ==
    \A t \in slots :
        (Returned(t, "import_row") /\ ~Truthy(tx[t].code)) =>
            /\ Status(t) = "matched_by_alias" <=> PairBefore(t) # {}
            /\ Status(t) = "matched_by_alias" =>
                 \E a \in PairBefore(t) : a.product_id = tx[t].result[1].product_id
            /\ PairBefore(t) = {} => Status(t) = "queued_inbox"

\* another store has an alias of the name, the store of the call has none
C28_Witness ==
    \E t \in slots :
        /\ Returned(t, "import_row") /\ ~Truthy(tx[t].code)
        /\ PairElsewhere(t) # {} /\ PairBefore(t) = {}

\* C29: once import_row has returned upsert_by_code with product P, the store
\* has one alias row of the normalized name; it points at P when the store
\* had none before and is the row the store had otherwise, whatever P is, so
\* the alias lookup of a following call with no code finds that row's product
C29_CodeBranchKeepsOldAlias ==
    \A t \in slots :
        (Returned(t, "import_row") /\ Status(t) = "upsert_by_code") =>
            LET now == AliasesOfPair(VisAliases(t), tx[t].store, normalize_name(tx[t].name))
            IN  /\ Cardinality(now) = 1
                /\ PairBefore(t) = {} =>
                     \A a \in now : a.product_id = tx[t].result[1].product_id
                /\ PairBefore(t) # {} => now = PairBefore(t)
                /\ AliasLookupIds(VisAliases(t), VisProducts(t), tx[t].store,
                                  normalize_name(tx[t].name))
                     = {a.product_id : a \in now}

\* the alias the store had points at another product than the one of the code
C29_Witness ==
    \E t \in slots :
        /\ Returned(t, "import_row") /\ Status(t) = "upsert_by_code"
        /\ \E a \in PairBefore(t) : a.product_id # tx[t].result[1].product_id
        /\ AliasLookupIds(VisAliases(t), VisProducts(t), tx[t].store,
                          normalize_name(tx[t].name)) # {tx[t].result[1].product_id}

\* the committed product rows with the code of the call of session t
CodeBefore(t) == ProductsByCode(products, tx[t].code)

\* row q after the call of session t: the fields the caller gives, the rest of q
Overwritten(t, q) ==
    [id |-> q.id, code |-> q.code, active |-> q.active,
     name |-> tx[t].name, name_norm |-> normalize_name(tx[t].name),
     ncm |-> tx[t].tax.ncm, unit |-> tx[t].tax.unit, cst_icms |-> tx[t].tax.cst_icms]

\* C30: upsert_product_by_code on a code that has a row replaces name,
\* name_norm, ncm, unit and cst_icms of that row by what the caller gives
\* (None when omitted) and nothing else: id, code and active of the row, the
\* other products, the aliases and the inbox stay as they were
C30_UpsertFrame ==
    \A t \in slots :
        /\ (tx[t].prod_id # None /\ CodeBefore(t) # {}) =>
              \E q \in CodeBefore(t) :
                  /\ tx[t].prod_id = Some(q.id)
                  /\ VisProducts(t) = (products \ {q}) \cup {Overwritten(t, q)}
        /\ (Returned(t, "upsert_product_by_code") /\ CodeBefore(t) # {}) =>
              /\ VisAliases(t) = aliases
              /\ VisInbox(t) = inbox

\* a retired product with tax fields is re-imported by its code under another
\* name with the tax fields omitted, beside another product, aliases and an
\* inbox row
C30_Witness ==
    \E t \in slots :
        /\ Returned(t, "upsert_product_by_code")
        /\ tx[t].tax = NoTax
        /\ \E q \in CodeBefore(t) :
             ~q.active /\ q.ncm # None /\ q.name_norm # normalize_name(tx[t].name)
        /\ aliases # {} /\ inbox # {}

(***************************************************************************)
(* Properties of runs of several calls                                     *)
(***************************************************************************)
\* the approvals as products of an inbox row of the store and the name, in any
\* spelling, of the call of session t
ApprovedFor(t) ==
    {h \in approved : /\ h.store_id = tx[t].store
                      /\ normalize_name(h.raw_name) = normalize_name(tx[t].name)}

\* C21: with no product and no alias a line with no code is queued; once the
\* inbox row of a name has been approved as a product, every later line of
\* the store with no code and a name of the same normal form returns
\* matched_by_alias with that product and writes no inbox row
C21_ApprovedNameResolves ==
    \A t \in slots :
        (Returned(t, "import_row") /\ ~Truthy(tx[t].code)) =>
            /\ (PairBefore(t) = {} /\ products = {}) => Status(t) = "queued_inbox"
            /\ \A h \in ApprovedFor(t) :
                 /\ Status(t) = "matched_by_alias"
                 /\ tx[t].result[1].product_id = h.product_id
                 /\ tx[t].iins = {}

(***************************************************************************)
(* Properties of an invoice import (BatchSpec)                             *)
(***************************************************************************)
\* the lines of the document of session t that came before the current one
EarlierItems(t) ==
    LET all == tx[t].xml[1].items
        cur == Len(all) - Len(tx[t].items)
    IN  {all[i] : i \in 1..(cur - 1)}

\* the current line has no code and an earlier line of the document carried a
\* code and a name of the same normal form
RepeatsCodedName(t) ==
    /\ tx[t].batch /\ tx[t].op = "import_row" /\ ~Truthy(tx[t].code)
    /\ \E l \in EarlierItems(t) :
         Truthy(l.code) /\ normalize_name(l.name) = normalize_name(tx[t].name)

\* C23: in one document, a line with no code that repeats the name of an
\* earlier line with a code finds the alias that line left: it returns
\* matched_by_alias, and is neither suggested a product nor queued
C23_LaterItemsSeeEarlier ==
    \A t \in slots :
        RepeatsCodedName(t) =>
            /\ tx[t].pc \notin {"suggest", "enqueue"}
            /\ tx[t].pc = "returned" => Status(t) = "matched_by_alias"
            /\ tx[t].pc = "failed" => tx[t].err[1].at = "nfe_new"

\* the alias found is one the document itself wrote: no committed alias of
\* the store has the name
C23_Witness ==
    \E t \in slots :
        /\ RepeatsCodedName(t) /\ tx[t].pc = "returned"
        /\ PairBefore(t) = {}
        /\ tx[t].name \notin {l.name : l \in EarlierItems(t)}

\* a statement of a line of the document of session t raised
ItemFailed(t) ==
    /\ tx[t].batch /\ tx[t].pc = "failed"
    /\ tx[t].err[1].at \notin {"client_select", "client_insert", "nfe_new"}

\* C25: an error raised while the lines of a document are imported leaves the
\* pipeline: the session runs no further statement, and the step that ends
\* its transaction leaves the client, product, alias, inbox and NfeXml tables
\* as they were committed, so no row of the document remains
C25_ItemErrorRollsBack ==
    [][\A t \in slots :
         (ItemFailed(t) /\ tx'[t] # tx[t]) =>
            /\ tx'[t] = Idle
            /\ products' = products
            /\ aliases' = aliases
            /\ inbox' = inbox
            /\ clients' = clients
            /\ nfe_xmls' = nfe_xmls]_vars

\* the document had written its client, an alias and a product row when a
\* later line raised
C25_Witness ==
    \E t \in slots :
        /\ ItemFailed(t)
        /\ tx[t].cins # {} /\ tx[t].ains # {} /\ tx[t].pins \cup tx[t].pupd # {}
        /\ products # {} /\ aliases # {}

\* session t calls importar_xml_document with the bytes of a document whose
\* import ran through its last line before
ImportsAgain(t) ==
    /\ tx[t].pc = "idle" /\ tx'[t].batch
    /\ Sha256(tx'[t].xml[1]) \in imported

C27_NewDocumentIsSaved ==
    \A t \in slots :
        (tx[t].batch /\ tx[t].pc = "failed") => tx[t].err[1].kind # "type_error"

(***************************************************************************)
(* Properties of normalize_name (NormSpec)                                 *)
(***************************************************************************)
\* the characters normalize_name can leave in its result
IsNormChar(c) == IsUpper(c) \/ IsDigit(c) \/ c = " "

\* a string of A-Z, 0-9 and single spaces, none at either end
IsNormalForm(s) ==
    /\ \A i \in DOMAIN s : IsNormChar(s[i])
    /\ \A i \in DOMAIN s : s[i] = " " => (i > 1 /\ i < Len(s) /\ s[i + 1] # " ")

\* C22: normalize_name returns a string for every text, and applied to its own
\* result it returns that result: normalize(normalize(x)) = normalize(x)
C22_NormalizeIdempotent ==
    /\ \A k \in DOMAIN norm : k > 1 => IsNormalForm(norm[k])
    /\ Len(norm) = 3 => norm[3] = norm[2]

=============================================================================
